---- MODULE Spec2Model ----
(***************************************************************************)
(* Word games with the zero-sum try limit system:                          *)
(*   SpellingBeeEnv (src/spiral/envs/SpellingBee/env.py)                   *)
(*   WordChainsEnv  (src/spiral/envs/WordChains/env.py)                    *)
(* One environment object is modelled: its configuration, the game_state   *)
(* dictionary created by reset, the fields of the textarena State the      *)
(* environment drives (current player, done, winners) and the result of    *)
(* the last step.  Words and actions are sequences of one-character        *)
(* strings.                                                                *)
(***************************************************************************)
EXTENDS Integers, Sequences, FiniteSets, TLC

\* ------------------------------------------------------------------ bounds
\* Longest bracketed token a player submits.
MaxWordLen == 3
\* Largest max_tries an environment is constructed with.
MaxMaxTries == 2

\* --------------------------------------------------------------- alphabet
\* Keys of letter_frequencies, cut down to two letters.
Letters == {"a", "b"}
\* Upper-case letters an action may contain.
UpperLetters == {"A", "B"}
\* Characters matched by \w in the models' actions.
WordChars == Letters \cup UpperLetters \cup {"_"}
\* str.lower() on one character.
LowerChar(c) == IF c = "A" THEN "a" ELSE IF c = "B" THEN "b" ELSE c
\* The string as it would be without lower-casing.
Lower_Unchanged(s) == s
\* str.lower() on a string.
Lower(s) == [i \in 1..Len(s) |-> LowerChar(s[i])]
\* set(word): the characters of a word.
CharSet(s) == {s[i] : i \in 1..Len(s)}
\* The words held by a list.
Range(s) == {s[i] : i \in 1..Len(s)}

\* -------------------------------------------------------------- vocabulary
\* EnglishDictionary.is_english_word: a fixed vocabulary of lower-case words.
Dictionary ==
  { <<"a">>, <<"a","b">>, <<"a","b","a">>, <<"b","a","b">>,
    <<"b","a","b","a">> }
\* _check_word / dictionary.is_english_word
IsEnglishWord(word) == word \in Dictionary
\* words.words() of nltk, before lower-casing and the length filter.
NltkWords ==
  { <<"A">>, <<"a","b">>, <<"b","a">>, <<"b","b">>,
    <<"a","b","a","b","a">>, <<"a","b","a","b","a","b">> }
\* Longest starting word kept in word_list.
SeedMaxLen == 5
\* The word list as it would be without the length filter.
WordList_Unfiltered == {Lower(v) : v \in NltkWords}
\* self.word_list after __init__.
WordList == {w \in {Lower(v) : v \in NltkWords} : Len(w) <= SeedMaxLen}

\* ------------------------------------------------------------------ inputs
\* All strings over a character set with length in lo..hi.
StringsOver(chars, lo, hi) == UNION {[1..n -> chars] : n \in lo..hi}
\* The lower-case tokens players put between brackets.
Tokens == StringsOver(Letters, 1, MaxWordLen)
\* A word with every "a" in upper case.
UpperA(s) == [i \in 1..Len(s) |-> IF s[i] = "a" THEN "A" ELSE s[i]]
\* Tokens that are vocabulary words written with upper-case letters.
CaseTokens == {UpperA(w) : w \in Dictionary} \cup {<<"a","B">>}
\* Actions without a well-formed bracketed token, and actions where the
\* token is surrounded by other text.
OddActions ==
  { << >>, <<"[","]">>, <<"a","b">>, <<"[","a">>, <<"a","]">>,
    <<"[","a"," ","b","]">>, <<"]","a","[">>,
    <<"[","_","]">>,
    <<" ","[","a","]">>, <<"[","[","a","b","]","]">>,
    <<"[","a"," ","[","b","a","]">>,
    <<"[","b","a","]","[","a","b","]">> }
\* The raw action strings a player may submit.
Actions ==
  {<<"[">> \o t \o <<"]">> : t \in Tokens \cup CaseTokens} \cup OddActions

\* ------------------------------------------------------------------ parser
\* Index of the last character of the run of \w characters starting at i
\* (i-1 when action[i] is not a \w character).
RECURSIVE RunEnd(_, _)
RunEnd(action, i) ==
  IF i <= Len(action) /\ action[i] \in WordChars
  THEN RunEnd(action, i + 1)
  ELSE i - 1
\* re.search(r"\[(\w+)\]", action) matches with its "[" at position i.
MatchAt(action, i) ==
  /\ action[i] = "["
  /\ RunEnd(action, i + 1) >= i + 1
  /\ RunEnd(action, i + 1) + 1 <= Len(action)
  /\ action[RunEnd(action, i + 1) + 1] = "]"
\* word_match.group(1).lower() of the leftmost match; << >> when
\* word_match is None.
NoToken == << >>
ParseWord(action) ==
  LET starts == {i \in 1..Len(action) : MatchAt(action, i)}
  IN IF starts = {} THEN NoToken
     ELSE LET i == CHOOSE k \in starts : \A m \in starts : k <= m
          IN Lower(SubSeq(action, i + 1, RunEnd(action, i + 1)))
\* The word each action of the model parses to.
ParsedWord == [action \in Actions |-> ParseWord(action)]

\* ------------------------------------------------------------------- state
VARIABLES
  variant,                \* "bee" (SpellingBeeEnv) or "chain" (WordChainsEnv)
  max_tries,              \* self.max_tries
  num_letters,            \* self.num_letters (bee), 0 for chain
  phase,                  \* "constructed", "playing", "config_error"
  allowed_letters,        \* game_state["allowed_letters"] (bee)
  word_history,           \* game_state["word_history"] (bee)
  starting_word,          \* starting_word chosen by reset (chain)
  current_word,           \* game_state["current_word"] (chain)
  used_words,             \* game_state["used_words"] (chain)
  required_start_letter,  \* game_state["required_start_letter"] (chain)
  required_length,        \* game_state["required_length"] (chain)
  tries_per_player,       \* game_state["tries_per_player"]
  players_with_valid_moves, \* game_state["players_with_valid_moves"]
  current_player_id,      \* state.current_player_id
  done,                   \* the game has ended (set_winners / set_draw)
  winners,                \* player_ids passed to set_winners
  outcome,                \* what the last step produced
  reason,                 \* why the last step's move was invalid, or "None"
  last_word,              \* the word parsed by the last step, or NoToken
  last_player,            \* current_player of the last step, -1 after reset
  accepted_words,         \* every word a step accepted, in order
  invalid_recorded,       \* per player, number of set_invalid_move calls
  tries_reported          \* <<tries, remaining_tries>> of reason_with_tries

config_vars == <<variant, max_tries, num_letters>>
bee_vars == <<allowed_letters, word_history>>
chain_vars ==
  <<starting_word, current_word, used_words, required_start_letter,
    required_length>>
shared_vars == <<tries_per_player, players_with_valid_moves>>
state_vars == <<current_player_id, done, winners>>
step_vars ==
  <<outcome, reason, last_word, last_player, accepted_words,
    invalid_recorded, tries_reported>>
vars ==
  <<config_vars, phase, bee_vars, chain_vars, shared_vars, state_vars,
    step_vars>>

Players == {0, 1}
Variants == {"bee", "chain"}
Reasons ==
  {"None", "BadFormat", "Length", "StartLetter", "AlreadyUsed", "NotAWord",
   "ForbiddenLetters"}
Outcomes == {"None", "Continue", "InvalidMoveRecorded", "Draw", "Decisive"}
Terminal == {"Draw", "Decisive"}

\* ------------------------------------------------------------ construction
\* SpellingBeeEnv.__init__ / WordChainsEnv.__init__: the configuration is
\* stored, no game state exists yet.
Init ==
  /\ variant \in Variants
  /\ max_tries \in 0..MaxMaxTries
  /\ num_letters \in IF variant = "bee" THEN 0..(Cardinality(Letters) + 1)
                     ELSE {0}
  /\ phase = "constructed"
  /\ allowed_letters = {}
  /\ word_history = << >>
  /\ starting_word = << >>
  /\ current_word = << >>
  /\ used_words = {}
  /\ required_start_letter = ""
  /\ required_length = 0
  /\ tries_per_player = [p \in Players |-> 0]
  /\ players_with_valid_moves = {}
  /\ current_player_id = 0
  /\ done = FALSE
  /\ winners = {}
  /\ outcome = "None"
  /\ reason = "None"
  /\ last_word = NoToken
  /\ last_player = -1
  /\ accepted_words = << >>
  /\ invalid_recorded = [p \in Players |-> 0]
  /\ tries_reported = << >>

\* ta.State(...) followed by state.reset(...): player 0 is to move, the game
\* is not over, and nothing has been produced by a step yet.
StateReset ==
  /\ current_player_id' = 0
  /\ done' = FALSE
  /\ winners' = {}
  /\ outcome' = "None"
  /\ reason' = "None"
  /\ last_word' = NoToken
  /\ last_player' = -1
  /\ accepted_words' = << >>
  /\ invalid_recorded' = [p \in Players |-> 0]
  /\ tries_reported' = << >>

\* The sets as they would be if letters were sampled with replacement.
GenerateAllowedLetters_Replacement(n) ==
  {s \in SUBSET Letters : Cardinality(s) <= n /\ (n > 0 => s # {})}

\* _generate_allowed_letters: the sets numpy.random.choice(letters,
\* size=num_letters, replace=False, p=probs) can return.
GenerateAllowedLetters(n) == {s \in SUBSET Letters : Cardinality(s) = n}

\* SpellingBeeEnv.reset
BeeReset ==
  /\ variant = "bee"
  /\ phase # "config_error"
  /\ IF num_letters > Cardinality(Letters)
     THEN \* raise ValueError("num_letters cannot exceed 26.")
          /\ phase' = "config_error"
          /\ UNCHANGED <<config_vars, bee_vars, chain_vars, shared_vars,
                         state_vars, step_vars>>
     ELSE /\ phase' = "playing"
          /\ allowed_letters' \in GenerateAllowedLetters(num_letters)
          /\ word_history' = << >>
          /\ tries_per_player' = [p \in Players |-> 0]
          /\ players_with_valid_moves' = {}
          /\ StateReset
          /\ UNCHANGED <<config_vars, chain_vars>>

\* The reset as it would be if the next word had to be as long as the seed.
ChainReset_SameLength ==
  /\ variant = "chain"
  /\ \E seed \in WordList :
       /\ starting_word' = seed
       /\ current_word' = seed
       /\ used_words' = {seed}
       /\ required_start_letter' = LowerChar(seed[Len(seed)])
       /\ required_length' = Len(seed)
  /\ phase' = "playing"
  /\ tries_per_player' = [p \in Players |-> 0]
  /\ players_with_valid_moves' = {}
  /\ StateReset
  /\ UNCHANGED <<config_vars, bee_vars>>

\* WordChainsEnv.reset
ChainReset ==
  /\ variant = "chain"
  /\ \E seed \in WordList :
       /\ starting_word' = seed
       /\ current_word' = seed
       /\ used_words' = {seed}
       /\ required_start_letter' = LowerChar(seed[Len(seed)])
       /\ required_length' = Len(seed) + 1
  /\ phase' = "playing"
  /\ tries_per_player' = [p \in Players |-> 0]
  /\ players_with_valid_moves' = {}
  /\ StateReset
  /\ UNCHANGED <<config_vars, bee_vars>>

\* ------------------------------------------------------------- ta.State
\* The State method a step calls before state.step().
StateCalls == {"none", "set_invalid_move", "set_draw", "set_winners"}
\* state.step(): the turn passes to the other player unless the step
\* recorded an invalid move or ended the game.
StateStepPlayer(call, player) ==
  IF call = "none" THEN 1 - player ELSE player
\* What the caller of step observes.
StepOutcome(call) ==
  CASE call = "none" -> "Continue"
    [] call = "set_invalid_move" -> "InvalidMoveRecorded"
    [] call = "set_draw" -> "Draw"
    [] call = "set_winners" -> "Decisive"
\* set_winners / set_draw / set_invalid_move followed by state.step().
StateApply(call, player) ==
  /\ current_player_id' = StateStepPlayer(call, player)
  /\ done' = (call \in {"set_draw", "set_winners"})
  /\ winners' = IF call = "set_winners" THEN {1 - player} ELSE {}
  /\ outcome' = StepOutcome(call)
  /\ invalid_recorded' =
       IF call = "set_invalid_move"
       THEN [invalid_recorded EXCEPT ![player] = @ + 1]
       ELSE invalid_recorded

\* --------------------------------------------------------- SpellingBeeEnv
\* The checks as they would be without the repetition check.
BeeCheck_NoRepetition(word) ==
  IF word = NoToken THEN "BadFormat"
  ELSE IF /\ Len(word_history) # 0
          /\ Len(word) < Len(word_history[Len(word_history)])
       THEN "Length"
  ELSE IF ~IsEnglishWord(word) THEN "NotAWord"
  ELSE IF ~(CharSet(word) \subseteq allowed_letters) THEN "ForbiddenLetters"
  ELSE "None"

\* The checks as they would be without the allowed-letters check.
BeeCheck_NoLetters(word) ==
  IF word = NoToken THEN "BadFormat"
  ELSE IF /\ Len(word_history) # 0
          /\ Len(word) < Len(word_history[Len(word_history)])
       THEN "Length"
  ELSE IF word \in Range(word_history) THEN "AlreadyUsed"
  ELSE IF ~IsEnglishWord(word) THEN "NotAWord"
  ELSE "None"

\* The checks as they would be if a word had to be longer than the last.
BeeCheck_StrictlyLonger(word) ==
  IF word = NoToken THEN "BadFormat"
  ELSE IF /\ Len(word_history) # 0
          /\ Len(word) <= Len(word_history[Len(word_history)])
       THEN "Length"
  ELSE IF word \in Range(word_history) THEN "AlreadyUsed"
  ELSE IF ~IsEnglishWord(word) THEN "NotAWord"
  ELSE IF ~(CharSet(word) \subseteq allowed_letters) THEN "ForbiddenLetters"
  ELSE "None"

\* The checks as they would be with repetition checked before length.
BeeCheck_RepetitionFirst(word) ==
  IF word = NoToken THEN "BadFormat"
  ELSE IF word \in Range(word_history) THEN "AlreadyUsed"
  ELSE IF /\ Len(word_history) # 0
          /\ Len(word) < Len(word_history[Len(word_history)])
       THEN "Length"
  ELSE IF ~IsEnglishWord(word) THEN "NotAWord"
  ELSE IF ~(CharSet(word) \subseteq allowed_letters) THEN "ForbiddenLetters"
  ELSE "None"

\* step, lines 137-160: the reason the move is invalid, "None" when valid.
BeeCheck(word) ==
  IF word = NoToken THEN "BadFormat"
  ELSE IF /\ Len(word_history) # 0
          /\ Len(word) < Len(word_history[Len(word_history)])
       THEN "Length"
  ELSE IF word \in Range(word_history) THEN "AlreadyUsed"
  ELSE IF ~IsEnglishWord(word) THEN "NotAWord"
  ELSE IF ~(CharSet(word) \subseteq allowed_letters) THEN "ForbiddenLetters"
  ELSE "None"

\* first_round_complete as it would be if one valid mover sufficed.
BeeFirstRoundComplete_OneMover(valid_movers) == Cardinality(valid_movers) >= 1

\* step, line 187: first_round_complete
BeeFirstRoundComplete(valid_movers) == Cardinality(valid_movers) = 2

\* The try limit as it would be with the limit reached one try early.
BeeTryLimit_OffByOne(tries) ==
  IF tries >= max_tries
  THEN IF Cardinality(players_with_valid_moves) = 2
       THEN "set_winners"
       ELSE "set_draw"
  ELSE "set_invalid_move"

\* The try limit as it would be without the set_invalid_move call.
BeeTryLimit_NoInvalidMove(tries) ==
  IF tries > max_tries
  THEN IF Cardinality(players_with_valid_moves) = 2
       THEN "set_winners"
       ELSE "set_draw"
  ELSE "none"

\* step, lines 179-205: the State method called for an invalid move whose
\* increment brought the player's count to tries.
BeeTryLimit(tries) ==
  IF tries > max_tries
  THEN IF BeeFirstRoundComplete(players_with_valid_moves)
       THEN "set_winners"
       ELSE "set_draw"
  ELSE "set_invalid_move"

\* The count as it would be if a valid move reset it.
BeeTries_ResetOnValid(is_invalid, player) ==
  IF is_invalid THEN tries_per_player[player] + 1 ELSE 0

\* The count as it would be if invalid moves were not counted.
BeeTries_NotCounted(is_invalid, player) == tries_per_player[player]

\* step, line 181: the player's count after the step.
BeeTries(is_invalid, player) ==
  IF is_invalid THEN tries_per_player[player] + 1
  ELSE tries_per_player[player]

\* The set as it would be if the valid move replaced it.
BeeValidMovers_Replace(is_invalid, player) ==
  IF is_invalid THEN players_with_valid_moves ELSE {player}

\* The set as it would be if the opponent were marked.
BeeValidMovers_Opponent(is_invalid, player) ==
  IF is_invalid THEN players_with_valid_moves
  ELSE players_with_valid_moves \cup {1 - player}

\* The set as it would be if every move marked the player.
BeeValidMovers_EveryMove(is_invalid, player) ==
  players_with_valid_moves \cup {player}

\* step, line 164: players_with_valid_moves after the step.
BeeValidMovers(is_invalid, player) ==
  IF is_invalid THEN players_with_valid_moves
  ELSE players_with_valid_moves \cup {player}

\* The report as it would be with the count before the increment.
BeeTriesReport_OldCount(tries) == <<tries, max_tries - (tries - 1)>>

\* step, lines 203-204: tries and remaining_tries of reason_with_tries.
BeeTriesReport(tries) == <<tries, max_tries - tries>>

\* SpellingBeeEnv.step(action).  state.step() returns done to the caller,
\* who submits no further action to a finished game: the step is taken
\* only while the game is running.
BeeStep(action) ==
  /\ variant = "bee"
  /\ phase = "playing"
  /\ ~done
  /\ LET word == ParsedWord[action]
         current_player == current_player_id
         why == BeeCheck(word)
         is_invalid == why # "None"
         tries == BeeTries(is_invalid, current_player)
         call == IF is_invalid THEN BeeTryLimit(tries) ELSE "none"
     IN /\ last_word' = word
        /\ last_player' = current_player
        /\ reason' = why
        /\ players_with_valid_moves' =
             BeeValidMovers(is_invalid, current_player)
        /\ tries_reported' =
             IF call = "set_invalid_move" THEN BeeTriesReport(tries)
             ELSE << >>
        /\ word_history' =
             IF is_invalid THEN word_history ELSE Append(word_history, word)
        /\ accepted_words' =
             IF is_invalid THEN accepted_words
             ELSE Append(accepted_words, word)
        /\ tries_per_player' =
             [tries_per_player EXCEPT ![current_player] = tries]
        /\ StateApply(call, current_player)
  /\ UNCHANGED <<config_vars, phase, allowed_letters, chain_vars>>

\* ---------------------------------------------------------- WordChainsEnv
\* The checks as they would be if a word only had to be long enough.
ChainCheck_AtLeast(word) ==
  IF word = NoToken THEN "BadFormat"
  ELSE IF Len(word) < required_length THEN "Length"
  ELSE IF word[1] # required_start_letter THEN "StartLetter"
  ELSE IF ~IsEnglishWord(word) THEN "NotAWord"
  ELSE IF word \in used_words THEN "AlreadyUsed"
  ELSE "None"

\* step, lines 122-145: the reason the move is invalid, "None" when valid.
ChainCheck(word) ==
  IF word = NoToken THEN "BadFormat"
  ELSE IF Len(word) # required_length THEN "Length"
  ELSE IF word[1] # required_start_letter THEN "StartLetter"
  ELSE IF ~IsEnglishWord(word) THEN "NotAWord"
  ELSE IF word \in used_words THEN "AlreadyUsed"
  ELSE "None"

\* step, line 175: first_round_complete
ChainFirstRoundComplete(valid_movers) == Cardinality(valid_movers) = 2

\* The try limit as it would be if the first exhausted player lost at once.
ChainTryLimit_EarlyEnd(tries) ==
  IF tries >= 1
  THEN IF Cardinality(players_with_valid_moves) = 2
       THEN "set_winners"
       ELSE "set_draw"
  ELSE "set_invalid_move"

\* The try limit as it would be with one more try allowed.
ChainTryLimit_LateEnd(tries) ==
  IF tries > max_tries + 1
  THEN IF Cardinality(players_with_valid_moves) = 2
       THEN "set_winners"
       ELSE "set_draw"
  ELSE "set_invalid_move"

\* The try limit as it would be without the set_invalid_move call.
ChainTryLimit_NoInvalidMove(tries) ==
  IF tries > max_tries
  THEN IF Cardinality(players_with_valid_moves) = 2
       THEN "set_winners"
       ELSE "set_draw"
  ELSE "none"

\* step, lines 167-193: the State method called for an invalid move whose
\* increment brought the player's count to tries.
ChainTryLimit(tries) ==
  IF tries > max_tries
  THEN IF ChainFirstRoundComplete(players_with_valid_moves)
       THEN "set_winners"
       ELSE "set_draw"
  ELSE "set_invalid_move"

\* step, line 169: the player's count after the step.
ChainTries(is_invalid, player) ==
  IF is_invalid THEN tries_per_player[player] + 1
  ELSE tries_per_player[player]

\* step, line 149: players_with_valid_moves after the step.
ChainValidMovers(is_invalid, player) ==
  IF is_invalid THEN players_with_valid_moves
  ELSE players_with_valid_moves \cup {player}

\* step, lines 191-192: tries and remaining_tries of reason_with_tries.
ChainTriesReport(tries) == <<tries, max_tries - tries>>

\* WordChainsEnv.step(action), taken only while the game is running.
ChainStep(action) ==
  /\ variant = "chain"
  /\ phase = "playing"
  /\ ~done
  /\ LET word == ParsedWord[action]
         current_player == current_player_id
         why == ChainCheck(word)
         is_invalid == why # "None"
         tries == ChainTries(is_invalid, current_player)
         call == IF is_invalid THEN ChainTryLimit(tries) ELSE "none"
     IN /\ last_word' = word
        /\ last_player' = current_player
        /\ reason' = why
        /\ players_with_valid_moves' =
             ChainValidMovers(is_invalid, current_player)
        /\ tries_reported' =
             IF call = "set_invalid_move" THEN ChainTriesReport(tries)
             ELSE << >>
        /\ used_words' = IF is_invalid THEN used_words
                         ELSE used_words \cup {word}
        /\ current_word' = IF is_invalid THEN current_word ELSE word
        /\ required_start_letter' =
             IF is_invalid THEN required_start_letter
             ELSE LowerChar(word[Len(word)])
        /\ required_length' =
             IF is_invalid THEN required_length ELSE Len(word) + 1
        /\ accepted_words' =
             IF is_invalid THEN accepted_words
             ELSE Append(accepted_words, word)
        /\ tries_per_player' =
             [tries_per_player EXCEPT ![current_player] = tries]
        /\ StateApply(call, current_player)
  /\ UNCHANGED <<config_vars, phase, bee_vars, starting_word>>

\* ------------------------------------------------------------ specification
Next ==
  \/ BeeReset
  \/ ChainReset
  \/ \E action \in Actions : BeeStep(action)
  \/ \E action \in Actions : ChainStep(action)

Spec == Init /\ [][Next]_vars

\* step(action) of the environment that was constructed.
StepAny(action) == BeeStep(action) \/ ChainStep(action)

\* One game: a single reset, then one action submitted after the other for
\* as long as the game is running.
PlayNext ==
  \/ phase = "constructed" /\ BeeReset
  \/ phase = "constructed" /\ ChainReset
  \/ \E action \in Actions : BeeStep(action)
  \/ \E action \in Actions : ChainStep(action)

\* The caller resets the environment and keeps submitting actions.
PlaySpec == Init /\ [][PlayNext]_vars /\ WF_vars(PlayNext)

\* --------------------------------------------------------------- typing
TypeOK ==
  /\ variant \in Variants
  /\ max_tries \in 0..(MaxMaxTries + 1)
  /\ phase \in {"constructed", "playing", "config_error"}
  /\ allowed_letters \subseteq Letters
  /\ tries_per_player \in [Players -> 0..(max_tries + 1)]
  /\ players_with_valid_moves \subseteq Players
  /\ current_player_id \in Players
  /\ done \in BOOLEAN
  /\ winners \subseteq Players
  /\ outcome \in Outcomes
  /\ reason \in Reasons
  /\ last_player \in Players \cup {-1}

\* ================================================================ claims
\* A step (not a reset) leads from the unprimed to the primed state.
Stepped == outcome' # "None"
\* The step's verdict.
Accepted == Stepped /\ reason' = "None"
Rejected == Stepped /\ reason' # "None"
\* The list has no element twice.
NoDuplicates(s) == \A i, j \in 1..Len(s) : s[i] = s[j] => i = j

\* C1: a rejected move that takes the current player's try count above
\* max_tries yields Draw when fewer than 2 players have made a valid move at
\* that moment, and otherwise Decisive with the other player as the only
\* winner; nothing else.
C1_TerminalRejection ==
  [][ (Rejected /\ tries_per_player'[current_player_id] > max_tries)
      => /\ done'
         /\ IF Cardinality(players_with_valid_moves) < 2
            THEN outcome' = "Draw" /\ winners' = {}
            ELSE outcome' = "Decisive"
                 /\ winners' = {1 - current_player_id} ]_vars
\* A player exceeded the limit after both players had made a valid move.
C1_Witness ==
  /\ outcome = "Decisive"
  /\ tries_per_player[last_player] > max_tries
  /\ winners = {1 - last_player}

\* C2 as stated: when the game has ended, each of the two players has
\* received exactly max_tries InvalidMoveRecorded outcomes.
C2_EveryPlayerExactlyMaxTries ==
  done => \A p \in Players : invalid_recorded[p] = max_tries
\* C2 (amended): when the game has ended, the player whose rejection ended it
\* has received exactly max_tries InvalidMoveRecorded outcomes and the other
\* player at most max_tries; and a player's count reaches max_tries + 1 only
\* in the rejection that ends the game.
C2_OffenderExactlyMaxTries ==
  /\ done => /\ invalid_recorded[last_player] = max_tries
             /\ tries_per_player[last_player] = max_tries + 1
             /\ \A p \in Players : invalid_recorded[p] <= max_tries
  /\ \A p \in Players :
       tries_per_player[p] > max_tries
         => done /\ last_player = p /\ outcome \in Terminal
  /\ \A p \in Players :
       (~done \/ p # last_player) => invalid_recorded[p] = tries_per_player[p]
\* A game ended by a player who had been told of max_tries >= 1 invalid
\* moves, while the other player had received fewer.
C2_Witness ==
  /\ done
  /\ max_tries >= 1
  /\ invalid_recorded[last_player] = max_tries
  /\ invalid_recorded[1 - last_player] < max_tries

\* C3: the turn passes to the other player on every accepted move and stays
\* with the same player on every rejected move that does not end the game.
C3_TurnPassing ==
  [][ /\ Accepted => current_player_id' = 1 - current_player_id
      /\ (Rejected /\ outcome' \notin Terminal)
           => current_player_id' = current_player_id ]_vars
\* Player 1 is to move again after a second recorded invalid move.
C3_Witness ==
  /\ outcome = "InvalidMoveRecorded"
  /\ last_player = 1
  /\ current_player_id = 1
  /\ invalid_recorded[1] >= 2

\* C4: an accepted move leaves both try counts as they are; a rejected move
\* adds one to the mover's count only, and ends the game exactly when the
\* count before it was max_tries, whatever moves were accepted in between.
C4_CumulativeTries ==
  [][ /\ Accepted => tries_per_player' = tries_per_player
      /\ Rejected =>
           /\ tries_per_player' =
                [tries_per_player EXCEPT ![current_player_id] = @ + 1]
           /\ (outcome' \in Terminal)
                <=> (tries_per_player[current_player_id] = max_tries) ]_vars
\* A player who has used every try has a move accepted; the count stays.
C4_Witness ==
  /\ outcome = "Continue"
  /\ max_tries >= 1
  /\ tries_per_player[last_player] = max_tries

\* The chain variant's words in the order they became current_word: the
\* starting word, then every accepted word.
ChainHistory == <<starting_word>> \o accepted_words

\* C5: at every turn boundary the history holds no word twice and has as
\* many words as the set of used words, which is the set of its words
\* (bee: word_history; chain: the starting word and the accepted words,
\* against used_words).
C5_NoDuplicateWords ==
  phase = "playing" =>
    IF variant = "bee"
    THEN /\ NoDuplicates(word_history)
         /\ Len(word_history) = Cardinality(Range(word_history))
         /\ word_history = accepted_words
    ELSE /\ NoDuplicates(ChainHistory)
         /\ Range(ChainHistory) = used_words
         /\ Len(ChainHistory) = Cardinality(used_words)
\* A word of the history was submitted again and turned down.
C5_Witness ==
  /\ variant = "bee"
  /\ reason = "AlreadyUsed"
  /\ last_word \in Range(word_history)
  /\ Len(word_history) >= 2

\* C6: chain variant: the k-th accepted word has length len(seed) + k, one
\* more than the word before it, and starts with that word's last character.
C6_ChainShape ==
  (variant = "chain" /\ phase = "playing") =>
    \A k \in 1..Len(accepted_words) :
      LET word == accepted_words[k]
          previous == ChainHistory[k]
      IN /\ Len(word) = Len(previous) + 1
         /\ Len(word) = Len(starting_word) + k
         /\ word[1] = previous[Len(previous)]
\* Two words have been accepted after the seed.
C6_Witness ==
  /\ variant = "chain"
  /\ Len(accepted_words) >= 2

\* C7: letter-constrained variant: no step changes the allowed letters, and
\* every word of word_history uses allowed letters only.
C7_AllowedLetters ==
  [][ (variant = "bee" /\ Stepped)
      => /\ allowed_letters' = allowed_letters
         /\ \A i \in 1..Len(word_history') :
              CharSet(word_history'[i]) \subseteq allowed_letters ]_vars
\* With a word in the history, a vocabulary word with a letter outside the
\* allowed set was turned down.
C7_Witness ==
  /\ variant = "bee"
  /\ reason = "ForbiddenLetters"
  /\ Len(word_history) >= 1
  /\ allowed_letters # {}

\* C8: letter-constrained variant: word lengths never decrease along
\* word_history, and a move is rejected for its length only when a word has
\* been accepted and the candidate is strictly shorter than the last one.
C8_NonDecreasingLength ==
  variant = "bee" =>
    /\ \A i, j \in 1..Len(word_history) :
         i <= j => Len(word_history[i]) <= Len(word_history[j])
    /\ reason = "Length" =>
         /\ word_history # << >>
         /\ Len(last_word) < Len(word_history[Len(word_history)])
\* A word as long as the one before it was accepted.
C8_Witness ==
  /\ variant = "bee"
  /\ outcome = "Continue"
  /\ Len(word_history) >= 2
  /\ Len(word_history[Len(word_history)])
       = Len(word_history[Len(word_history) - 1])

\* The checks of the validation order, on the state before the step.
FailsFormat(word) == word = NoToken
FailsShape(word) ==
  IF variant = "bee"
  THEN /\ word_history # << >>
       /\ Len(word) < Len(word_history[Len(word_history)])
  ELSE \/ Len(word) # required_length
       \/ word[1] # required_start_letter
FailsRepetition(word) ==
  IF variant = "bee" THEN word \in Range(word_history)
  ELSE word \in used_words
FailsVocabulary(word) == word \notin Dictionary
FailsLetters(word) ==
  variant = "bee" /\ ~(CharSet(word) \subseteq allowed_letters)
\* The check that fails first in the order format, length/position,
\* repetition, vocabulary, letters.
FirstFailure(word) ==
  IF FailsFormat(word) THEN "BadFormat"
  ELSE IF FailsShape(word) THEN "LengthOrPosition"
  ELSE IF FailsRepetition(word) THEN "AlreadyUsed"
  ELSE IF FailsVocabulary(word) THEN "NotAWord"
  ELSE IF FailsLetters(word) THEN "ForbiddenLetters"
  ELSE "None"
\* The check a reported reason belongs to.
CheckOf(why) ==
  IF why \in {"Length", "StartLetter"} THEN "LengthOrPosition" ELSE why

\* C9: the reason a step reports is that of the first check, in the order
\* format, length/position, repetition, vocabulary, letters, that the
\* candidate fails in the state before the step.
C9_FirstFailingCheck ==
  [][ Stepped => CheckOf(reason') = FirstFailure(last_word') ]_vars
\* An already used word that is also too short was rejected for its length.
C9_Witness ==
  /\ variant = "bee"
  /\ reason = "Length"
  /\ last_word \in Range(word_history)

\* No vocabulary word is a valid move for the player to move.
NoLegalWord ==
  \A word \in Dictionary :
    IF variant = "bee" THEN BeeCheck(word) # "None"
    ELSE ChainCheck(word) # "None"

C11_NoValidMoveOpponentWins ==
  (phase = "playing" /\ last_player \in Players /\ reason = "None"
     /\ NoLegalWord)
    => (done /\ outcome = "Decisive" /\ winners = {1 - current_player_id})

\* C12: when actions keep being submitted every game ends: a Draw or
\* Decisive outcome is eventually produced, after at most as many accepted
\* moves as the vocabulary has words and at most 2 * max_tries + 1
\* rejections.
C12_EveryGameEnds ==
  /\ [](/\ Len(accepted_words) <= Cardinality(Dictionary)
        /\ tries_per_player[0] + tries_per_player[1] <= 2 * max_tries + 1)
  /\ <>(phase = "config_error" \/ (done /\ outcome \in Terminal))
\* A game ended after both players used all their tries and two words were
\* accepted.
C12_Witness ==
  /\ done
  /\ max_tries >= 1
  /\ tries_per_player[0] + tries_per_player[1] = 2 * max_tries + 1
  /\ Len(accepted_words) >= 2

C14_InvalidMoveReport ==
  [][ (Rejected /\ tries_per_player'[current_player_id] <= max_tries)
      => /\ outcome' = "InvalidMoveRecorded"
         /\ ~done'
         /\ tries_reported' =
              << tries_per_player'[current_player_id],
                 max_tries - tries_per_player'[current_player_id] >>
         /\ tries_reported'[1] = tries_per_player[current_player_id] + 1
         /\ tries_reported'[2] >= 0 ]_vars
\* The last permitted invalid move of a player was reported: 0 remaining.
C14_Witness ==
  /\ outcome = "InvalidMoveRecorded"
  /\ max_tries >= 2
  /\ tries_reported = <<max_tries, 0>>

\* C15: a step never removes a member of players_with_valid_moves, which
\* holds player ids only; the set gains the mover on an accepted move and is
\* unchanged by a rejected one; with two members it keeps two.
C15_ValidMoversGrow ==
  [][ Stepped =>
        /\ players_with_valid_moves \subseteq players_with_valid_moves'
        /\ players_with_valid_moves' \subseteq Players
        /\ Accepted => players_with_valid_moves'
                         = players_with_valid_moves \cup {current_player_id}
        /\ Rejected => players_with_valid_moves' = players_with_valid_moves
        /\ Cardinality(players_with_valid_moves) = 2
             => Cardinality(players_with_valid_moves') = 2 ]_vars
\* With both players marked, a further move was accepted.
C15_Witness ==
  /\ Cardinality(players_with_valid_moves) = 2
  /\ outcome = "Continue"
  /\ Len(accepted_words) >= 3

\* C16 as stated: a letter-constrained environment whose num_letters
\* exceeds the alphabet does not exist after construction: the error has
\* been raised.
C16_ErrorAtConstruction ==
  (variant = "bee" /\ num_letters > Cardinality(Letters))
    => phase = "config_error"
\* C16 (amended): an environment with num_letters above the alphabet size is
\* constructed without error; its reset raises the error, so it never gets a
\* game state or a turn.  Otherwise reset chooses exactly num_letters
\* distinct allowed letters.
C16_ErrorAtReset ==
  variant = "bee" =>
    /\ num_letters > Cardinality(Letters)
         => /\ phase \in {"constructed", "config_error"}
            /\ outcome = "None"
            /\ last_player = -1
            /\ allowed_letters = {}
    /\ phase = "config_error" => num_letters > Cardinality(Letters)
    /\ phase = "playing"
         => /\ num_letters <= Cardinality(Letters)
            /\ Cardinality(allowed_letters) = num_letters
            /\ allowed_letters \subseteq Letters
\* The reset of an environment with too many letters raised the error.
C16_Witness ==
  /\ variant = "bee"
  /\ phase = "config_error"
  /\ num_letters > Cardinality(Letters)

\* C17: a rejected move adds one to the mover's try count and changes
\* nothing else of the game state: not the word history or used words, the
\* allowed letters, the current word, the required start letter and length,
\* the players with a valid move, or the other player's count.
C17_RejectionFrame ==
  [][ Rejected =>
        /\ tries_per_player' =
             [tries_per_player EXCEPT ![current_player_id] = @ + 1]
        /\ UNCHANGED <<allowed_letters, word_history, starting_word,
                       current_word, used_words, required_start_letter,
                       required_length, players_with_valid_moves,
                       accepted_words>> ]_vars
\* After a word was accepted, a non-word was turned down.
C17_Witness ==
  /\ reason = "NotAWord"
  /\ Len(accepted_words) >= 1
  /\ tries_per_player[last_player] >= 1

\* C18: chain variant: required_length is one more than the length of
\* current_word and required_start_letter is its last character, where
\* current_word is the starting word (at most 5 letters, so the first
\* required length is at most 6) until a word is accepted and the last
\* accepted word afterwards.
C18_ChainRequirements ==
  (variant = "chain" /\ phase = "playing") =>
    /\ current_word = ChainHistory[Len(ChainHistory)]
    /\ required_length = Len(current_word) + 1
    /\ required_start_letter = current_word[Len(current_word)]
    /\ Len(starting_word) <= SeedMaxLen
    /\ accepted_words = << >> => required_length <= SeedMaxLen + 1
\* A word was accepted after the seed and set a new start letter.
C18_Witness ==
  /\ variant = "chain"
  /\ Len(accepted_words) = 1
  /\ current_word = accepted_words[1]
  /\ required_length = Len(starting_word) + 2
  /\ required_start_letter # starting_word[Len(starting_word)]

\* Two characters are the same letter, in whatever case.
SameLetter(c, d) ==
  c = d \/ {c, d} \in {{"a", "A"}, {"b", "B"}}
\* Two actions differ in the case of letters only.
DifferInCaseOnly(a, b) ==
  /\ a # b
  /\ Len(a) = Len(b)
  /\ \A i \in 1..Len(a) : SameLetter(a[i], b[i])
\* The pairs of actions of the model that differ in case only.
CasePairs ==
  {pair \in Actions \X Actions : DifferInCaseOnly(pair[1], pair[2])}
\* For each word, the actions that differ in case only from an action that
\* parses to the word.
CaseVariants ==
  [word \in {ParsedWord[a] : a \in Actions} |->
     {pair[2] : pair \in {q \in CasePairs : ParsedWord[q[1]] = word}}]
\* The word was accepted by an earlier step of the game.
AcceptedEarlier(word) == word \in Range(accepted_words)

\* C19 as stated: a step on an action leads to the same verdict, reason
\* and state as a step on any action differing from it in case only, and
\* when the word was accepted by an earlier step it reports AlreadyUsed.
C19_ResubmittedIsAlreadyUsed ==
  [][ Stepped =>
        \A other \in CaseVariants[last_word'] :
          /\ StepAny(other)
          /\ AcceptedEarlier(last_word') => reason' = "AlreadyUsed" ]_vars
\* C19 (amended): a step on an action leads to the same verdict, reason and
\* state as a step on any action differing from it in case only; an earlier accepted word resubmitted in another
\* case is rejected like its lower-case form: as AlreadyUsed in the
\* letter-constrained variant unless it is shorter than the last accepted
\* word, and for its length otherwise and in the chain variant.
C19_CaseInsensitive ==
  [][ Stepped =>
        \A other \in CaseVariants[last_word'] :
          /\ StepAny(other)
          /\ AcceptedEarlier(last_word')
               => reason' =
                    IF /\ variant = "bee"
                       /\ Len(last_word')
                            >= Len(word_history[Len(word_history)])
                    THEN "AlreadyUsed"
                    ELSE "Length" ]_vars
\* The word accepted last was submitted again, in whatever case, and turned
\* down as already used.
C19_Witness ==
  /\ variant = "bee"
  /\ reason = "AlreadyUsed"
  /\ CaseVariants[last_word] # {}
  /\ last_word = word_history[Len(word_history)]

\* C20: player 1 has a valid move only if player 0 has one; a Draw is
\* produced by a player without any accepted move when at most one word has
\* been accepted; a Decisive outcome comes after at least two accepted words
\* and its winner has an accepted move.
C20_FirstRoundOrder ==
  /\ 1 \in players_with_valid_moves => 0 \in players_with_valid_moves
  /\ outcome = "Draw"
       => /\ last_player \notin players_with_valid_moves
          /\ Len(accepted_words) <= 1
  /\ outcome = "Decisive"
       => /\ Len(accepted_words) >= 2
          /\ winners # {}
          /\ winners \subseteq players_with_valid_moves
\* Player 1 exceeded the limit after player 0's only word: a draw.
C20_Witness ==
  /\ outcome = "Draw"
  /\ last_player = 1
  /\ Len(accepted_words) = 1
  /\ players_with_valid_moves = {0}

\* C21: while the game is running the player to move is the number of
\* accepted moves modulo 2, player 0 first; so the word at position k of the
\* acceptance order (counted from 0) was played by player k modulo 2: even
\* positions by player 0, odd positions by player 1.
C21_TurnParity ==
  /\ [](~done => current_player_id = Len(accepted_words) % 2)
  /\ [][ Accepted
           => /\ current_player_id = Len(accepted_words) % 2
              /\ last_player' = (Len(accepted_words') - 1) % 2
              /\ current_player_id' = Len(accepted_words') % 2 ]_vars
\* Player 1 is still to move after three accepted words and a recorded
\* invalid move of each player.
C21_Witness ==
  /\ ~done
  /\ outcome = "InvalidMoveRecorded"
  /\ Len(accepted_words) = 3
  /\ current_player_id = 1
  /\ tries_per_player[0] >= 1
  /\ tries_per_player[1] >= 1

\* The words the actions of the model parse to.
ParsedWords == {ParsedWord[action] : action \in Actions}
\* The chain variant's checks in the specified order: format, length, start
\* letter, repetition, vocabulary.
ChainCheckSpecified(word) ==
  IF word = NoToken THEN "BadFormat"
  ELSE IF Len(word) # required_length THEN "Length"
  ELSE IF word[1] # required_start_letter THEN "StartLetter"
  ELSE IF word \in used_words THEN "AlreadyUsed"
  ELSE IF ~IsEnglishWord(word) THEN "NotAWord"
  ELSE "None"

\* C22: chain variant: every used word, the seed included, is strictly
\* shorter than required_length, so no candidate of the required length is
\* a used word, no step reports AlreadyUsed, and for every candidate the
\* checks in the code's order (vocabulary before repetition) give the same
\* verdict and reason as in the specified order (repetition before
\* vocabulary).
C22_ChainOrderEquivalent ==
  /\ [](variant = "chain" /\ phase = "playing"
         => /\ \A used \in used_words : Len(used) < required_length
            /\ \A word \in ParsedWords :
                 /\ Len(word) = required_length => word \notin used_words
                 /\ ChainCheck(word) # "AlreadyUsed"
                 /\ ChainCheck(word) = ChainCheckSpecified(word))
  /\ [][ (variant = "chain" /\ Stepped)
           => /\ reason' # "AlreadyUsed"
              /\ reason' = ChainCheckSpecified(last_word') ]_vars
\* An accepted word of the chain was submitted again and turned down for its
\* length, and a vocabulary word of the required length can still be played.
C22_Witness ==
  /\ variant = "chain"
  /\ reason = "Length"
  /\ last_word \in used_words
  /\ last_word # starting_word
  /\ \E word \in Dictionary : ChainCheck(word) = "None"

====
